---- MODULE Spec2Model ----
(***************************************************************************)
(* State-machine model of the transaction-entry workflow of                *)
(* expense-pilot-go:                                                       *)
(*   src/src/components/transactions/AddTransactionForm.tsx               *)
(* and of its category panel:                                              *)
(*   src/src/components/categories/CategoryManager.tsx                     *)
(*                                                                         *)
(* The component is event driven and single threaded.  Every event handler *)
(* runs to completion; handleSubmit is an async function, so it runs in    *)
(* two segments: from the submit event to the `await createTransaction`,   *)
(* and from the settlement of that promise to the end of `finally`.  Each  *)
(* segment is one action.  React re-renders between events, so a handler   *)
(* reads the state left by the previous event, and the values captured by  *)
(* a suspended handleSubmit are those of the render it was started from.   *)
(*                                                                         *)
(* Strings the code inspects character by character (the amount) are       *)
(* sequences of one-character strings; the empty string is << >>.  Other   *)
(* strings are TLA+ strings, "" being the empty string.                    *)
(***************************************************************************)
EXTENDS Integers, Sequences, FiniteSets, TLC

VARIABLES
    type,           \* useState<'income' | 'expense'>('expense')
    amount,         \* useState('')        raw text of the amount input
    description,    \* useState('')
    accountId,      \* useState('')
    categoryId,     \* useState('')
    date,           \* useState(today)     value of the date input
    receiptFile,    \* useState<File | null>(null)
    loading,        \* useState(false)
    accounts,       \* useAccounts().accounts
    creditCards,    \* useCreditCards().creditCards
    categories,     \* useCategories().categories
    pending,        \* createTransaction promises not yet settled, each with
                    \* the payload it was called with
    now,            \* the clock, in half days since the epoch (UTC)
    event,          \* observation: what happened last
    outcome,        \* observation: how the latest submit attempt stands
    calls,          \* observation: createTransaction invocations of the latest
                    \* submit attempt
    toasts,         \* observation: notifications emitted by the latest submit
                    \* attempt, in order
    thrown,         \* observation: the error the latest attempt's call rejected
                    \* with, undefined when it has not
    showAddForm,    \* CategoryManager: useState(false)
    newCategory,    \* CategoryManager: useState({name, icon, color, transaction_type})
    defaultCategories, \* the static default-category catalog
    panelToasts     \* observation: notifications emitted by the latest event of
                    \* the category panel

draft     == <<type, amount, description, accountId, categoryId, date, receiptFile>>
formVars  == <<type, amount, description, accountId, categoryId, date, receiptFile, loading>>
storeVars == <<accounts, creditCards, categories>>
obsVars   == <<event, outcome, calls, toasts, thrown>>
panelVars == <<showAddForm, newCategory, defaultCategories, panelToasts>>
vars      == <<formVars, storeVars, pending, now, obsVars, panelVars>>

----------------------------------------------------------------------------
(* Bounds of the model *)

\* The clock runs over the instants 0..MaxNow (half days).
MaxNow == 2

\* Collections delivered by the stores hold at most this many rows each.
MaxRows == 2

\* the category collections explored have at most this many rows
MaxCategories == 3

----------------------------------------------------------------------------
(* Text helpers *)

Chars(s) == { s[i] : i \in 1..Len(s) }

IsPrefix(p, s) == Len(p) <= Len(s) /\ SubSeq(s, 1, Len(p)) = p

\* index of the first occurrence of the character c in s, 0 when absent
RECURSIVE IndexOf(_, _, _)
IndexOf(s, c, i) ==
    IF i > Len(s) THEN 0
    ELSE IF s[i] = c THEN i
    ELSE IndexOf(s, c, i + 1)

\* mutant: the text is parsed as typed
replaceNothing(s, from, to) == s

\* String.prototype.replace with a string pattern: the FIRST occurrence only
replace(s, from, to) ==
    LET i == IndexOf(s, from, 1)
    IN  IF i = 0 THEN s
        ELSE SubSeq(s, 1, i - 1) \o <<to>> \o SubSeq(s, i + 1, Len(s))

DigitChars == <<"0", "1", "2", "3", "4", "5", "6", "7", "8", "9">>
Digit      == Chars(DigitChars)
DigitVal(c) == (CHOOSE i \in 1..10 : DigitChars[i] = c) - 1

RECURSIVE ToNat(_)
ToNat(ds) == IF ds = << >> THEN 0
             ELSE 10 * ToNat(SubSeq(ds, 1, Len(ds) - 1)) + DigitVal(ds[Len(ds)])

RECURSIVE Pow10(_)
Pow10(n) == IF n = 0 THEN 1 ELSE 10 * Pow10(n - 1)

\* length of the longest prefix of s made of digits
RECURSIVE LenDigits(_)
LenDigits(s) == IF s # << >> /\ s[1] \in Digit THEN 1 + LenDigits(Tail(s)) ELSE 0

RECURSIVE TrimStart(_)
TrimStart(s) == IF s # << >> /\ s[1] = " " THEN TrimStart(Tail(s)) ELSE s

RECURSIVE StripLeadingZeros(_)
StripLeadingZeros(ds) ==
    IF ds # << >> /\ ds[1] = "0" THEN StripLeadingZeros(Tail(ds)) ELSE ds

RECURSIVE StripTrailingZeros(_)
StripTrailingZeros(ds) ==
    IF ds # << >> /\ ds[Len(ds)] = "0"
    THEN StripTrailingZeros(SubSeq(ds, 1, Len(ds) - 1)) ELSE ds

----------------------------------------------------------------------------
(* JavaScript numbers, as far as parseFloat produces them.                 *)
(* A finite number is neg, mant and exp with value (+/-) mant * 10^exp,    *)
(* mant not divisible by 10 (0 is mant = 0, exp = 0).  Two such records    *)
(* are equal exactly when the doubles are, for literals of up to nine      *)
(* significant digits in the normal range, which is what the inputs of     *)
(* this model are.                                                         *)

NaN        == [cls |-> "NaN",      neg |-> FALSE, mant |-> 0, exp |-> 0]
Inf(neg)   == [cls |-> "Infinity", neg |-> neg,   mant |-> 0, exp |-> 0]
Zero(neg)  == [cls |-> "finite",   neg |-> neg,   mant |-> 0, exp |-> 0]

\* The double nearest to (+/-) 0.ds * 10^... : digits ds scaled by 10^e.
\* Above the largest double (1.7976931348623157e308) the result is Infinity,
\* below half the smallest one (4.94e-324) it is zero.
Decimal(neg, ds, e) ==
    LET a  == StripLeadingZeros(ds)
        b  == StripTrailingZeros(a)
        e2 == e + (Len(a) - Len(b))
        E  == Len(b) - 1 + e2
        m9 == ToNat(b) * Pow10(9 - Len(b))
    IN  IF b = << >> THEN Zero(neg)
        ELSE IF E > 308 \/ (E = 308 /\ m9 > 179769313) THEN Inf(neg)
        ELSE IF E < -324 \/ (E = -324 /\ m9 <= 247032822) THEN Zero(neg)
        ELSE [cls |-> "finite", neg |-> neg, mant |-> ToNat(b), exp |-> e2]

InfinityLit == <<"I", "n", "f", "i", "n", "i", "t", "y">>

\* parseFloat: skip leading white space, then the longest prefix that is a
\* StrDecimalLiteral (sign, "Infinity" or digits with an optional fraction and
\* an optional complete exponent); NaN when there is none.
parseFloat(str) ==
    LET s0      == TrimStart(str)
        hasSign == s0 # << >> /\ s0[1] \in {"+", "-"}
        neg     == s0 # << >> /\ s0[1] = "-"
        s1      == IF hasSign THEN Tail(s0) ELSE s0
        ni      == LenDigits(s1)
        s2      == SubSeq(s1, ni + 1, Len(s1))
        hasDot  == s2 # << >> /\ s2[1] = "."
        s3      == IF hasDot THEN Tail(s2) ELSE s2
        nf      == IF hasDot THEN LenDigits(s3) ELSE 0
        s4      == SubSeq(s3, nf + 1, Len(s3))
        hasE    == s4 # << >> /\ s4[1] \in {"e", "E"}
        s5      == IF hasE THEN Tail(s4) ELSE << >>
        eSign   == s5 # << >> /\ s5[1] \in {"+", "-"}
        eNeg    == s5 # << >> /\ s5[1] = "-"
        s6      == IF eSign THEN Tail(s5) ELSE s5
        ne      == LenDigits(s6)
        expVal  == IF ne = 0 THEN 0
                   ELSE (IF eNeg THEN -1 ELSE 1) * ToNat(SubSeq(s6, 1, ne))
    IN  IF IsPrefix(InfinityLit, s1) THEN Inf(neg)
        ELSE IF ni + nf = 0 THEN NaN
        ELSE Decimal(neg, SubSeq(s1, 1, ni) \o SubSeq(s3, 1, nf), expVal - nf)

isNaN(n) == n.cls = "NaN"

\* n <= 0 (false for NaN; -0 <= 0 is true)
LeqZero(n) ==
    \/ n.cls = "Infinity" /\ n.neg
    \/ n.cls = "finite" /\ (n.neg \/ n.mant = 0)

----------------------------------------------------------------------------
(* Values *)

null      == "null"
undefined == "undefined"

\* `!x` for a string, a File, null or undefined: the empty string, null and
\* undefined are falsy
Falsy(x) == x \in {"", null, undefined}

\* `!s` for a string held as a sequence of characters
FalsyText(s) == Len(s) = 0

Directions == {"income", "expense"}

\* new Date().toISOString().split('T')[0]: the UTC calendar day of an instant
ISODate(instant) == instant \div 2

Days == { ISODate(t) : t \in 0..MaxNow }

\* what the user can type in the amount input
Amounts == {
    << >>,
    <<"0">>,
    <<"-", "5">>,
    <<"a", "b", "c">>,
    <<"1", "0", ",", "5", "0">>,
    <<"1", "0", ".", "5", "0">>,
    InfinityLit }

\* amounts written with a decimal comma, each with its decimal-point twin
RichAmounts == {
    <<"1", "0", ",", "5", "0">>,
    <<"1", "0", ".", "5", "0">>,
    <<"1", ",", "5">>,
    <<"1", ".", "5">>,
    <<",", "5">>,
    <<".", "5">>,
    <<"1", ".", "2", "3", "4", ",", "5", "6">>,
    <<"1", ".", "2", "3", "4", ".", "5", "6">>,
    <<"1", ",", "2", "3", "4", ",", "5", "6">>,
    <<"1", ",", "5", "e", "2">>,
    <<"1", ".", "5", "e", "2">>,
    <<"-", "2", ",", "5">>,
    <<"-", "2", ".", "5">>,
    <<"0", ",", "0">>,
    <<"0", ".", "0">>,
    <<" ", "7", ",", "2", "5">>,
    <<" ", "7", ".", "2", "5">>,
    <<"1", "e", "9", "9", "9">>,
    <<"1", "2", ",">>,
    <<"1", "2", ".">>,
    <<"1", ",", "2", ",", "3">>,
    <<"1", ".", "2", ".", "3">>,
    <<",">>,
    <<".">> }

Descriptions == {"", "Almoco"}

\* files the user can pick in the receipt input
Files == {"recibo.pdf", "nota.png"}

\* what createTransaction can reject with: an error with a message, with an
\* empty message, or without one
Errors == { [message |-> "new row violates row-level security policy"],
            [message |-> ""],
            [message |-> undefined] }

\* rows the account and credit-card stores can hold
AccountRows == { [id |-> "acc1", name |-> "Carteira", type |-> "wallet"],
                 [id |-> "acc2", name |-> "Poupanca", type |-> "savings"] }
CardRows    == { [id |-> "card1", name |-> "Visa",   bank_name |-> "Nubank"],
                 [id |-> "card2", name |-> "Master", bank_name |-> null] }

\* the sequences over S of length at most n
\* rows of the categories table; transaction_type is the database enum
CategoryRows ==
    { [id |-> "cat1", name |-> <<"P", "e", "t", "s">>,      transaction_type |-> "expense"],
      [id |-> "cat2", name |-> <<"B", "o", "n", "u", "s">>, transaction_type |-> "income"],
      [id |-> "cat3", name |-> <<"L", "U", "Z">>,           transaction_type |-> "expense"],
      [id |-> "cat4", name |-> <<"j", "u", "r", "o", "s">>, transaction_type |-> "income"],
      [id |-> "cat5", name |-> <<"P", "i", "x">>,           transaction_type |-> "transfer"] }

BoundedSeq(S, n) == UNION { [1..k -> S] : k \in 0..n }

\* rows the stores deliver to the form
LoadedAccounts    == << [id |-> "acc1", name |-> "Carteira", type |-> "wallet"] >>
LoadedCreditCards == << [id |-> "card1", name |-> "Visa", bank_name |-> "Nubank"] >>
LoadedCategories  ==
    << [id |-> "cat1", name |-> <<"P", "e", "t", "s">>,      transaction_type |-> "expense"],
       [id |-> "cat2", name |-> <<"B", "o", "n", "u", "s">>, transaction_type |-> "income"] >>

----------------------------------------------------------------------------
(* Derived views, recomputed on every render *)

RECURSIVE SelectSeq2Reversed(_, _)
\* mutant: the matching rows come out in reverse order
SelectSeq2Reversed(s, t) ==
    IF s = << >> THEN << >>
    ELSE SelectSeq2Reversed(Tail(s), t)
         \o (IF s[1].transaction_type = t THEN <<s[1]>> ELSE << >>)

RECURSIVE SelectSeq2(_, _)
SelectSeq2(s, t) ==
    IF s = << >> THEN << >>
    ELSE (IF s[1].transaction_type = t THEN <<s[1]>> ELSE << >>)
         \o SelectSeq2(Tail(s), t)

\* categories.filter(cat => cat.transaction_type === type)
filteredCategories == SelectSeq2(categories, type)

AccountEntry(account) ==
    [id |-> account.id, name |-> account.name, type |-> "account",
     accountType |-> account.type, bankName |-> undefined, icon |-> "Building"]

CardEntry(card) ==
    [id |-> card.id, name |-> card.name, type |-> "credit_card",
     accountType |-> "credit_card", bankName |-> card.bank_name,
     icon |-> "CreditCard"]

\* mutant: the credit cards are spread first
UnifyCardsFirst(accs, cards) ==
    [i \in 1..Len(cards) |-> CardEntry(cards[i])]
    \o [i \in 1..Len(accs) |-> AccountEntry(accs[i])]

\* [...accounts.map(...), ...creditCards.map(...)]
Unify(accs, cards) ==
    [i \in 1..Len(accs) |-> AccountEntry(accs[i])]
    \o [i \in 1..Len(cards) |-> CardEntry(cards[i])]

allAccounts == Unify(accounts, creditCards)

----------------------------------------------------------------------------
(* The category panel: CategoryManager.tsx *)

UpperCase == <<"A", "B", "C", "D", "E", "F", "G", "H", "I", "J", "K", "L", "M",
               "N", "O", "P", "Q", "R", "S", "T", "U", "V", "W", "X", "Y", "Z">>
LowerCase == <<"a", "b", "c", "d", "e", "f", "g", "h", "i", "j", "k", "l", "m",
               "n", "o", "p", "q", "r", "s", "t", "u", "v", "w", "x", "y", "z">>

UpperCaseLetters == { UpperCase[k] : k \in 1..Len(UpperCase) }

\* the lower-case letter of each upper-case letter
LowerOf ==
    [c \in UpperCaseLetters |->
        LowerCase[CHOOSE k \in 1..Len(UpperCase) : UpperCase[k] = c]]

\* String.prototype.toLowerCase, character by character
toLowerCase(s) ==
    [i \in 1..Len(s) |-> IF s[i] \in UpperCaseLetters THEN LowerOf[s[i]] ELSE s[i]]

\* the initial value of newCategory, lines 15-20, and its reset, lines 35-40
DefaultIcon  == "clipboard"
DefaultColor == "#6B7280"
NewCategoryDefaults ==
    [name |-> << >>, icon |-> DefaultIcon, color |-> DefaultColor,
     transaction_type |-> "expense"]

\* the default-category catalog: an ordered sequence of
\* {name, icon, color, transaction_type}
BaseCatalog ==
    << [name |-> <<"p", "e", "t", "s">>,      icon |-> "paw",   color |-> "#F59E0B", transaction_type |-> "expense"],
       [name |-> <<"L", "a", "z", "e", "r">>, icon |-> "party", color |-> "#8B5CF6", transaction_type |-> "expense"],
       [name |-> <<"L", "u", "z">>,           icon |-> "bulb",  color |-> "#F59E0B", transaction_type |-> "expense"],
       [name |-> <<"B", "o", "n", "u", "s">>, icon |-> "gift",  color |-> "#10B981", transaction_type |-> "income"],
       [name |-> <<"G", "a", "s">>,           icon |-> "flame", color |-> "#8B5CF6", transaction_type |-> "expense"],
       [name |-> <<"T", "a", "x", "i">>,      icon |-> "car",   color |-> "#10B981", transaction_type |-> "expense"],
       [name |-> <<"C", "a", "s", "a">>,      icon |-> "home",  color |-> "#F59E0B", transaction_type |-> "expense"],
       [name |-> <<"J", "u", "r", "o", "s">>, icon |-> "chart", color |-> "#10B981", transaction_type |-> "income"],
       [name |-> <<"B", "a", "r">>,           icon |-> "glass", color |-> "#8B5CF6", transaction_type |-> "expense"] >>

\* the catalogs explored: the base catalog and three of its suffixes, of
\* nine, six, three and no entries
Catalogs ==
    { SubSeq(BaseCatalog, a, Len(BaseCatalog)) : a \in {1, 4, 7, Len(BaseCatalog) + 1} }

\* .slice(0, 6)
SuggestionLimit == 6

\* mutant: the names are compared as they are written
NamesMatchExactly(a, b) == a = b

\* existingCat.name.toLowerCase() === defaultCat.name.toLowerCase()
NamesMatch(a, b) == toLowerCase(a) = toLowerCase(b)

\* categories.some(existingCat => ... === defaultCat.name.toLowerCase())
Exists(cats, defaultCat) ==
    \E j \in 1..Len(cats) : NamesMatch(cats[j].name, defaultCat.name)

\* defaultCategories.filter(defaultCat => !categories.some(...))
FilterNew(catalog, cats) ==
    SelectSeq(catalog, LAMBDA defaultCat : ~Exists(cats, defaultCat))

\* Array.prototype.slice(0, n)
slice(s, n) == SubSeq(s, 1, IF Len(s) < n THEN Len(s) ELSE n)

\* the suggestions rendered, lines 220-227
Suggestions == slice(FilterNew(defaultCategories, categories), SuggestionLimit)

\* categories.filter(cat => cat.transaction_type === 'income'), line 43
incomeCategories == SelectSeq2(categories, "income")

\* categories.filter(cat => cat.transaction_type === 'expense'), line 44
expenseCategories == SelectSeq2(categories, "expense")

MsgCategoryAdded == "Categoria adicionada com sucesso!"

\* what the user can type in the fields of the creation form
NewNames  == { << >>, <<"P", "E", "T", "S">>, <<"H", "o", "r", "t", "a">> }
NewIcons  == { DefaultIcon, "leaf" }
NewColors == { DefaultColor, "#EF4444" }

----------------------------------------------------------------------------
(* handleSubmit, lines 59-100 *)

\* mutant: the submit control is never disabled
SubmitNeverDisabled == FALSE

\* <Button type="submit" disabled={loading}>
SubmitDisabled == loading

\* mutant: the category is not among the required fields
MissingRequiredButCategory(a, d, acc, cat) ==
    FalsyText(a) \/ Falsy(d) \/ Falsy(acc)

\* !amount || !description || !accountId || !categoryId
MissingRequired(a, d, acc, cat) ==
    FalsyText(a) \/ Falsy(d) \/ Falsy(acc) \/ Falsy(cat)

\* parseFloat(amount.replace(',', '.'))
NumericAmount(a) == parseFloat(replace(a, ",", "."))

\* isNaN(numericAmount) || numericAmount <= 0
InvalidAmount(n) == isNaN(n) \/ LeqZero(n)

\* the argument of createTransaction
Payload(t, n, d, acc, cat, dt, file) ==
    [type |-> t, amount |-> n, description |-> d, account_id |-> acc,
     category_id |-> cat, date |-> dt, status |-> "completed",
     receiptFile |-> IF Falsy(file) THEN undefined ELSE file]

MsgRequired == "Por favor, preencha todos os campos obrigatorios"
MsgPositive == "Valor deve ser um numero positivo"
MsgGeneric  == "Erro ao adicionar transacao"

ErrorToast(m)   == [kind |-> "error", message |-> m]
SuccessToast(m) == [kind |-> "success", message |-> m]

\* `${type === 'income' ? 'Receita' : 'Despesa'} adicionada com sucesso!`
SuccessMessage(t) ==
    IF t = "income" THEN "Receita adicionada com sucesso!"
    ELSE "Despesa adicionada com sucesso!"

\* error.message || 'Erro ao adicionar transação'
FailureMessage(error) ==
    IF Falsy(error.message) THEN MsgGeneric ELSE error.message

\* mutant: the date is reset to the day the form was mounted
ClearedToMountDate(instant) ==
    [amount |-> << >>, description |-> "", accountId |-> "", categoryId |-> "",
     date |-> ISODate(0), receiptFile |-> null]

\* "Limpar formulario": the values the setters are called with on success
Cleared(instant) ==
    [amount |-> << >>, description |-> "", accountId |-> "", categoryId |-> "",
     date |-> ISODate(instant), receiptFile |-> null]

Remove(s, i) == SubSeq(s, 1, i - 1) \o SubSeq(s, i + 1, Len(s))

InitForm ==
    /\ type = "expense"
    /\ amount = << >>
    /\ description = ""
    /\ accountId = ""
    /\ categoryId = ""
    /\ now = 0
    /\ date = ISODate(0)
    /\ receiptFile = null
    /\ loading = FALSE
    /\ pending = << >>
    /\ event = "mount"
    /\ outcome = "none"
    /\ calls = 0
    /\ toasts = << >>
    /\ thrown = undefined

\* CategoryManager as mounted, lines 14-20
InitPanel ==
    /\ showAddForm = FALSE
    /\ newCategory = NewCategoryDefaults
    /\ panelToasts = << >>

\* the form mounted over stores that have loaded
Init ==
    /\ InitForm
    /\ InitPanel
    /\ defaultCategories = BaseCatalog
    /\ accounts = LoadedAccounts
    /\ creditCards = LoadedCreditCards
    /\ categories = LoadedCategories

\* what every input handler leaves alone
Edited ==
    /\ event' = "edit"
    /\ UNCHANGED <<loading, storeVars, pending, now, outcome, calls, toasts, thrown,
                   panelVars>>

\* mutant: the toggle invalidates the selected category
SetTypeClearingCategory ==
    \E v \in Directions \ {type} :
        /\ type' = v
        /\ categoryId' = ""
        /\ UNCHANGED <<amount, description, accountId, date, receiptFile>>
        /\ Edited

\* Tabs onValueChange={(value) => setType(value)}
SetType ==
    \E v \in Directions \ {type} :
        /\ type' = v
        /\ UNCHANGED <<amount, description, accountId, categoryId, date, receiptFile>>
        /\ Edited

\* onChange={(e) => setAmount(e.target.value)}
SetAmount ==
    \E v \in Amounts \ {amount} :
        /\ amount' = v
        /\ UNCHANGED <<type, description, accountId, categoryId, date, receiptFile>>
        /\ Edited

\* onChange={(e) => setDescription(e.target.value)}
SetDescription ==
    \E v \in Descriptions \ {description} :
        /\ description' = v
        /\ UNCHANGED <<type, amount, accountId, categoryId, date, receiptFile>>
        /\ Edited

\* <Select value={accountId} onValueChange={setAccountId}> over allAccounts
SetAccountId ==
    \E i \in 1..Len(allAccounts) :
        /\ allAccounts[i].id # accountId
        /\ accountId' = allAccounts[i].id
        /\ UNCHANGED <<type, amount, description, categoryId, date, receiptFile>>
        /\ Edited

\* <Select value={categoryId} onValueChange={setCategoryId}> over filteredCategories
SetCategoryId ==
    \E i \in 1..Len(filteredCategories) :
        /\ filteredCategories[i].id # categoryId
        /\ categoryId' = filteredCategories[i].id
        /\ UNCHANGED <<type, amount, description, accountId, date, receiptFile>>
        /\ Edited

\* onChange={(e) => setDate(e.target.value)}
SetDate ==
    \E v \in Days \ {date} :
        /\ date' = v
        /\ UNCHANGED <<type, amount, description, accountId, categoryId, receiptFile>>
        /\ Edited

\* mutant: an event without a file detaches the receipt
handleFileChangeUnguarded ==
    \E file \in Files \cup {undefined} :
        /\ receiptFile' = IF Falsy(file) THEN null ELSE file
        /\ UNCHANGED <<type, amount, description, accountId, categoryId, date>>
        /\ Edited

\* handleFileChange: const file = e.target.files?.[0]; if (file) setReceiptFile(file)
handleFileChange ==
    \E file \in Files \cup {undefined} :
        /\ receiptFile' = IF Falsy(file) THEN receiptFile ELSE file
        /\ UNCHANGED <<type, amount, description, accountId, categoryId, date>>
        /\ Edited

\* handleSubmit from the submit event to `await createTransaction(...)`
handleSubmit ==
    /\ ~SubmitDisabled
    /\ event' = "submit"
    /\ thrown' = undefined
    /\ UNCHANGED <<draft, storeVars, now, panelVars>>
    /\ IF MissingRequired(amount, description, accountId, categoryId)
       THEN /\ toasts' = <<ErrorToast(MsgRequired)>>
            /\ calls' = 0
            /\ outcome' = "invalid"
            /\ UNCHANGED <<loading, pending>>
       ELSE LET numericAmount == NumericAmount(amount)
            IN  IF InvalidAmount(numericAmount)
                THEN /\ toasts' = <<ErrorToast(MsgPositive)>>
                     /\ calls' = 0
                     /\ outcome' = "invalid"
                     /\ UNCHANGED <<loading, pending>>
                ELSE /\ loading' = TRUE
                     /\ pending' = Append(pending,
                            Payload(type, numericAmount, description, accountId,
                                    categoryId, date, receiptFile))
                     /\ calls' = 1
                     /\ toasts' = << >>
                     /\ outcome' = "pending"

\* mutant: the reset spares a draft that was edited after the submit
ResolvedKeepingEdits(i) ==
    LET edited == \/ description # pending[i].description
                  \/ accountId # pending[i].account_id
                  \/ categoryId # pending[i].category_id
        after  == IF edited
                  THEN [amount |-> amount, description |-> description,
                        accountId |-> accountId, categoryId |-> categoryId,
                        date |-> date, receiptFile |-> receiptFile]
                  ELSE Cleared(now)
    IN  /\ toasts' = Append(toasts, SuccessToast(SuccessMessage(pending[i].type)))
        /\ amount' = after.amount
        /\ description' = after.description
        /\ accountId' = after.accountId
        /\ categoryId' = after.categoryId
        /\ date' = after.date
        /\ receiptFile' = after.receiptFile
        /\ loading' = FALSE
        /\ pending' = Remove(pending, i)
        /\ event' = "resolve"
        /\ outcome' = "resolved"
        /\ UNCHANGED <<type, calls, thrown, storeVars, now, panelVars>>

\* the rest of `try` and `finally`, once the promise of call i has resolved
Resolved(i) ==
    /\ toasts' = Append(toasts, SuccessToast(SuccessMessage(pending[i].type)))
    /\ amount' = Cleared(now).amount
    /\ description' = Cleared(now).description
    /\ accountId' = Cleared(now).accountId
    /\ categoryId' = Cleared(now).categoryId
    /\ date' = Cleared(now).date
    /\ receiptFile' = Cleared(now).receiptFile
    /\ loading' = FALSE
    /\ pending' = Remove(pending, i)
    /\ event' = "resolve"
    /\ outcome' = "resolved"
    /\ UNCHANGED <<type, calls, thrown, storeVars, now, panelVars>>

\* mutant: the rejected call is issued again instead of being reported
RejectedRetried(i, error) ==
    /\ pending' = Append(Remove(pending, i), pending[i])
    /\ calls' = calls + 1
    /\ event' = "reject"
    /\ thrown' = error
    /\ UNCHANGED <<formVars, outcome, toasts, storeVars, now, panelVars>>

\* mutant: the error is swallowed without a notification
RejectedSilently(i, error) ==
    /\ loading' = FALSE
    /\ pending' = Remove(pending, i)
    /\ event' = "reject"
    /\ outcome' = "rejected"
    /\ thrown' = error
    /\ UNCHANGED <<draft, calls, toasts, storeVars, now, panelVars>>

\* mutant: the form is cleared on failure as it is on success
RejectedAndCleared(i, error) ==
    /\ toasts' = Append(toasts, ErrorToast(FailureMessage(error)))
    /\ amount' = << >>
    /\ description' = ""
    /\ accountId' = ""
    /\ categoryId' = ""
    /\ receiptFile' = null
    /\ loading' = FALSE
    /\ pending' = Remove(pending, i)
    /\ event' = "reject"
    /\ outcome' = "rejected"
    /\ thrown' = error
    /\ UNCHANGED <<type, date, calls, storeVars, now, panelVars>>

\* mutant: setLoading(false) only at the end of `try`, no `finally`
RejectedWithoutFinally(i, error) ==
    /\ toasts' = Append(toasts, ErrorToast(FailureMessage(error)))
    /\ pending' = Remove(pending, i)
    /\ event' = "reject"
    /\ outcome' = "rejected"
    /\ thrown' = error
    /\ UNCHANGED <<formVars, calls, storeVars, now, panelVars>>

\* `catch` and `finally`, once the promise of call i has rejected with error
Rejected(i, error) ==
    /\ toasts' = Append(toasts, ErrorToast(FailureMessage(error)))
    /\ loading' = FALSE
    /\ pending' = Remove(pending, i)
    /\ event' = "reject"
    /\ outcome' = "rejected"
    /\ thrown' = error
    /\ UNCHANGED <<draft, calls, storeVars, now, panelVars>>

Resolve == \E i \in 1..Len(pending) : Resolved(i)

Reject == \E i \in 1..Len(pending) : \E error \in Errors : Rejected(i, error)

\* time passes
Tick ==
    /\ now < MaxNow
    /\ now' = now + 1
    /\ event' = "tick"
    /\ UNCHANGED <<formVars, storeVars, pending, outcome, calls, toasts, thrown,
                   panelVars>>

Next ==
    \/ SetType
    \/ SetAmount
    \/ SetDescription
    \/ SetAccountId
    \/ SetCategoryId
    \/ SetDate
    \/ handleFileChange
    \/ handleSubmit
    \/ Resolve
    \/ Reject
    \/ Tick

Spec == Init /\ [][Next]_vars

----------------------------------------------------------------------------
(* The events of the category panel *)

\* what no handler of the panel touches
PanelEdited ==
    UNCHANGED <<formVars, storeVars, pending, now, outcome, calls, toasts, thrown,
                defaultCategories>>

\* onClick={() => setShowAddForm(!showAddForm)}, line 59
ToggleAddForm ==
    /\ showAddForm' = ~showAddForm
    /\ newCategory' = newCategory
    /\ panelToasts' = << >>
    /\ event' = "toggleForm"
    /\ PanelEdited

\* Cancelar: onClick={() => setShowAddForm(false)}, line 129; the button is
\* rendered only while the form is shown
CancelAddForm ==
    /\ showAddForm
    /\ showAddForm' = FALSE
    /\ newCategory' = newCategory
    /\ panelToasts' = << >>
    /\ event' = "cancel"
    /\ PanelEdited

\* setNewCategory(prev => ({ ...prev, name: e.target.value })), line 81
SetNewName ==
    /\ showAddForm
    /\ \E v \in NewNames \ {newCategory.name} :
           newCategory' = [newCategory EXCEPT !.name = v]
    /\ showAddForm' = showAddForm
    /\ panelToasts' = << >>
    /\ event' = "panelEdit"
    /\ PanelEdited

\* setNewCategory(prev => ({ ...prev, icon: e.target.value })), line 92
SetNewIcon ==
    /\ showAddForm
    /\ \E v \in NewIcons \ {newCategory.icon} :
           newCategory' = [newCategory EXCEPT !.icon = v]
    /\ showAddForm' = showAddForm
    /\ panelToasts' = << >>
    /\ event' = "panelEdit"
    /\ PanelEdited

\* setNewCategory(prev => ({ ...prev, transaction_type: value })), lines 103-105
SetNewType ==
    /\ showAddForm
    /\ \E v \in Directions \ {newCategory.transaction_type} :
           newCategory' = [newCategory EXCEPT !.transaction_type = v]
    /\ showAddForm' = showAddForm
    /\ panelToasts' = << >>
    /\ event' = "panelEdit"
    /\ PanelEdited

\* setNewCategory(prev => ({ ...prev, color: e.target.value })), line 123
SetNewColor ==
    /\ showAddForm
    /\ \E v \in NewColors \ {newCategory.color} :
           newCategory' = [newCategory EXCEPT !.color = v]
    /\ showAddForm' = showAddForm
    /\ panelToasts' = << >>
    /\ event' = "panelEdit"
    /\ PanelEdited

\* mutant: clicking a suggestion creates the category at once
ClickSuggestionCreates ==
    \E i \in 1..Len(Suggestions) :
        /\ newCategory' = NewCategoryDefaults
        /\ showAddForm' = FALSE
        /\ panelToasts' = << SuccessToast(MsgCategoryAdded) >>
        /\ event' = "suggestion"
        /\ PanelEdited

\* the onClick of a suggestion button, lines 233-241
ClickSuggestion ==
    LET suggestions == Suggestions IN
    \E i \in 1..Len(suggestions) :
      LET suggestion == suggestions[i] IN
        /\ newCategory' = [name             |-> suggestion.name,
                           icon             |-> suggestion.icon,
                           color            |-> suggestion.color,
                           transaction_type |-> suggestion.transaction_type]
        /\ showAddForm' = TRUE
        /\ panelToasts' = << >>
        /\ event' = "suggestion"
        /\ PanelEdited

\* mutant: the submit leaves the draft as it was typed
handleAddCategoryKeepingDraft ==
    /\ showAddForm
    /\ panelToasts' = << SuccessToast(MsgCategoryAdded) >>
    /\ showAddForm' = FALSE
    /\ newCategory' = newCategory
    /\ event' = "addCategory"
    /\ PanelEdited

\* mutant: the submitted category is added to the collection
handleAddCategoryPersisting ==
    /\ showAddForm
    /\ panelToasts' = << SuccessToast(MsgCategoryAdded) >>
    /\ showAddForm' = FALSE
    /\ newCategory' = NewCategoryDefaults
    /\ event' = "addCategory"
    /\ categories' = Append(categories,
                            [id |-> "new", name |-> newCategory.name,
                             transaction_type |-> newCategory.transaction_type])
    /\ UNCHANGED <<formVars, accounts, creditCards, pending, now, outcome, calls,
                   toasts, thrown, defaultCategories>>

\* handleAddCategory, lines 30-41; the form is rendered only while showAddForm
handleAddCategory ==
    /\ showAddForm
    /\ panelToasts' = << SuccessToast(MsgCategoryAdded) >>
    /\ showAddForm' = FALSE
    /\ newCategory' = NewCategoryDefaults
    /\ event' = "addCategory"
    /\ PanelEdited

----------------------------------------------------------------------------
(* The funding-source view over changing stores: the hooks deliver new     *)
(* collections whenever the stores change, and the view is recomputed.     *)

InitStores ==
    /\ InitForm
    /\ InitPanel
    /\ defaultCategories = BaseCatalog
    /\ accounts \in BoundedSeq(AccountRows, MaxRows)
    /\ creditCards \in BoundedSeq(CardRows, MaxRows)
    /\ categories = LoadedCategories

\* useAccounts() returns a new collection
AccountsChanged ==
    \E rows \in BoundedSeq(AccountRows, MaxRows) \ {accounts} :
        /\ accounts' = rows
        /\ event' = "refetch"
        /\ UNCHANGED <<formVars, creditCards, categories, pending, now,
                       outcome, calls, toasts, thrown, panelVars>>

\* useCreditCards() returns a new collection
CreditCardsChanged ==
    \E rows \in BoundedSeq(CardRows, MaxRows) \ {creditCards} :
        /\ creditCards' = rows
        /\ event' = "refetch"
        /\ UNCHANGED <<formVars, accounts, categories, pending, now,
                       outcome, calls, toasts, thrown, panelVars>>

NextStores ==
    \/ AccountsChanged
    \/ CreditCardsChanged
    \/ SetAccountId

SpecStores == InitStores /\ [][NextStores]_vars

----------------------------------------------------------------------------
(* The category views over a changing category store. *)

InitCategories ==
    /\ InitForm
    /\ InitPanel
    /\ defaultCategories = BaseCatalog
    /\ accounts = LoadedAccounts
    /\ creditCards = LoadedCreditCards
    /\ categories \in BoundedSeq(CategoryRows, MaxCategories)

\* useCategories() returns a new collection
CategoriesChanged ==
    \E rows \in BoundedSeq(CategoryRows, MaxCategories) \ {categories} :
        /\ categories' = rows
        /\ event' = "refetch"
        /\ UNCHANGED <<formVars, accounts, creditCards, pending, now,
                       outcome, calls, toasts, thrown, panelVars>>

NextCategories ==
    \/ CategoriesChanged
    \/ SetType
    \/ SetCategoryId

SpecCategories == InitCategories /\ [][NextCategories]_vars

----------------------------------------------------------------------------
(* The suggestions over any category collection and any catalog. *)

InitSuggestions ==
    /\ InitForm
    /\ InitPanel
    /\ defaultCategories \in Catalogs
    /\ accounts = LoadedAccounts
    /\ creditCards = LoadedCreditCards
    /\ categories \in BoundedSeq(CategoryRows, MaxCategories)

NextSuggestions == ClickSuggestion

SpecSuggestions == InitSuggestions /\ [][NextSuggestions]_vars

----------------------------------------------------------------------------
(* The category panel over loaded stores. *)

NextPanel ==
    \/ ToggleAddForm
    \/ CancelAddForm
    \/ SetNewName
    \/ SetNewIcon
    \/ SetNewType
    \/ SetNewColor
    \/ ClickSuggestion
    \/ handleAddCategory

SpecPanel == Init /\ [][NextPanel]_vars

----------------------------------------------------------------------------
(* The form and the panel together.  They are separate components with     *)
(* separate state, and no handler of one reads or writes the state of the  *)
(* other.  The behaviours explored are those in which the user turns from  *)
(* one component to the other while the one left behind is at rest: the    *)
(* panel with its creation form closed and reset, the form as it is when   *)
(* mounted or just reset by a resolved call, whatever its direction.       *)

PanelAtRest ==
    ~showAddForm /\ newCategory = NewCategoryDefaults /\ panelToasts = << >>

FormAtRest ==
    /\ Len(amount) = 0 /\ description = "" /\ accountId = "" /\ categoryId = ""
    /\ date = ISODate(now)
    /\ receiptFile = null
    /\ ~loading
    /\ outcome \in {"none", "resolved"}

NextApp ==
    \/ PanelAtRest /\ SetType
    \/ PanelAtRest /\ SetAmount
    \/ PanelAtRest /\ SetDescription
    \/ PanelAtRest /\ SetAccountId
    \/ PanelAtRest /\ SetCategoryId
    \/ PanelAtRest /\ SetDate
    \/ PanelAtRest /\ handleFileChange
    \/ PanelAtRest /\ handleSubmit
    \/ PanelAtRest /\ Resolve
    \/ PanelAtRest /\ Reject
    \/ PanelAtRest /\ Tick
    \/ FormAtRest /\ ToggleAddForm
    \/ FormAtRest /\ CancelAddForm
    \/ FormAtRest /\ SetNewName
    \/ FormAtRest /\ SetNewIcon
    \/ FormAtRest /\ SetNewType
    \/ FormAtRest /\ SetNewColor
    \/ FormAtRest /\ ClickSuggestion
    \/ FormAtRest /\ handleAddCategory

SpecApp == Init /\ [][NextApp]_vars

----------------------------------------------------------------------------
(* The amount input over decimal-comma and decimal-point spellings. *)

\* onChange={(e) => setAmount(e.target.value)}, with more spellings typed
SetAmountAny ==
    \E v \in (Amounts \cup RichAmounts) \ {amount} :
        /\ amount' = v
        /\ UNCHANGED <<type, description, accountId, categoryId, date, receiptFile>>
        /\ Edited

NextAmounts ==
    \/ SetAmountAny
    \/ SetDescription
    \/ SetAccountId
    \/ SetCategoryId
    \/ handleSubmit
    \/ Resolve

SpecAmounts == Init /\ [][NextAmounts]_vars

----------------------------------------------------------------------------
(* Properties *)

\* the required fields as the specification names them
SomeRequiredEmpty ==
    Len(amount) = 0 \/ description = "" \/ accountId = "" \/ categoryId = ""

\* the amount text, decimal comma read as a decimal point, as a number
AmountValue == parseFloat(replace(amount, ",", "."))

\* C1: at most one createTransaction call is pending at any time, `loading`
\* is true exactly while one is pending, and an attempt never has more than
\* one call: the disabled submit control keeps a second submit out while
\* `loading` is true.
C1_AtMostOneInFlight ==
    /\ Len(pending) <= 1
    /\ loading <=> Len(pending) = 1
    /\ calls <= 1

\* a call is in flight and the user keeps editing
C1_Witness == loading /\ Len(pending) = 1 /\ event = "edit"

\* C2: a submit event with amount, description, account_id or category_id
\* empty issues no create-call, emits exactly one notification, the
\* missing-field error (also when the amount is the empty one, which is never
\* parsed), and leaves every draft field and `loading` unchanged.
C2_MissingFieldRejected ==
    [][ (event' = "submit" /\ SomeRequiredEmpty)
        => /\ calls' = 0
           /\ pending' = pending
           /\ toasts' = << [kind |-> "error", message |-> MsgRequired] >>
           /\ draft' = draft
           /\ loading' = loading ]_vars

\* a submit with only the category missing, rejected with the missing-field error
C2_Witness ==
    /\ event = "submit"
    /\ categoryId = "" /\ Len(amount) > 0 /\ description # "" /\ accountId # ""
    /\ toasts = << [kind |-> "error", message |-> MsgRequired] >>
    /\ calls = 0

\* C3: a submit event with the four required fields filled whose amount does
\* not parse to a finite number, or parses to a value <= 0, issues no
\* create-call and emits exactly one error notification.
C3_InvalidAmountRejected ==
    (event = "submit" /\ ~SomeRequiredEmpty
        /\ (AmountValue.cls # "finite" \/ LeqZero(AmountValue)))
    => /\ calls = 0
       /\ pending = << >>
       /\ Len(toasts) = 1
       /\ toasts[1].kind = "error"

\* the validation of handleSubmit, lines 62-71
PassesValidation ==
    /\ ~SomeRequiredEmpty
    /\ AmountValue.cls # "NaN"
    /\ ~LeqZero(AmountValue)

\* C4: a submit event that passes validation issues exactly one
\* createTransaction call, with the draft's direction, parsed amount,
\* description, account, category and date, status "completed" and the
\* attached file if any; a submit event that fails validation issues none;
\* and no other event issues one, so a failed call is never retried.
C4_OneCallPerValidatedSubmit ==
    [][ /\ (event' = "submit" /\ PassesValidation)
           => /\ calls' = 1
              /\ pending' = Append(pending,
                    [type |-> type, amount |-> AmountValue,
                     description |-> description, account_id |-> accountId,
                     category_id |-> categoryId, date |-> date,
                     status |-> "completed",
                     receiptFile |-> IF receiptFile = null THEN undefined
                                     ELSE receiptFile])
        /\ (event' = "submit" /\ ~PassesValidation)
           => calls' = 0 /\ pending' = pending
        /\ event' # "submit"
           => calls' = calls /\ Len(pending') <= Len(pending) ]_vars

\* a call that carries a file was rejected, and nothing was issued again
C4_Witness ==
    /\ event = "reject"
    /\ calls = 1
    /\ pending = << >>
    /\ receiptFile \in Files

\* C5: every submit attempt ends with exactly one notification: an error on
\* a validation failure or a rejected call, a success on a resolved call;
\* while the call is pending the attempt has emitted none.
C5_OneNotificationPerAttempt ==
    /\ outcome \in {"none", "pending"} => toasts = << >>
    /\ outcome \in {"invalid", "rejected"}
       => Len(toasts) = 1 /\ toasts[1].kind = "error"
    /\ outcome = "resolved"
       => Len(toasts) = 1 /\ toasts[1].kind = "success"
    /\ outcome = "pending" <=> pending # << >>

\* an attempt that reached the store and was rejected
C5_Witness == outcome = "rejected" /\ calls = 1 /\ Len(toasts) = 1

\* the direction of the category with this id
CategoryType(id) ==
    categories[CHOOSE i \in 1..Len(categories) : categories[i].id = id].transaction_type

\* C6: every create-call carries a category whose transaction_type is the
\* direction of the same payload.
C6_CategoryMatchesDirection ==
    \A i \in 1..Len(pending) :
        CategoryType(pending[i].category_id) = pending[i].type

\* C7: when a create-call resolves, amount, description, account and category
\* become empty, the date becomes the current date, the receipt becomes null,
\* the direction keeps its value, and the one notification is the success
\* message of the direction that was submitted.
C7_SuccessReset ==
    [][ event' = "resolve"
        => /\ Len(amount') = 0
           /\ description' = ""
           /\ accountId' = ""
           /\ categoryId' = ""
           /\ date' = ISODate(now)
           /\ receiptFile' = null
           /\ type' = type
           /\ toasts' = << [kind |-> "success",
                            message |-> IF pending[1].type = "income"
                                        THEN "Receita adicionada com sucesso!"
                                        ELSE "Despesa adicionada com sucesso!"] >> ]_vars

\* an expense resolved on a later day, after the direction was toggled while
\* the call was pending
C7_Witness ==
    /\ event = "resolve"
    /\ type = "income"
    /\ toasts = << [kind |-> "success", message |-> "Despesa adicionada com sucesso!"] >>
    /\ date = 1
    /\ Len(amount) = 0 /\ receiptFile = null

\* C8: when a create-call rejects, exactly one error notification is emitted,
\* carrying the store's message or the generic one when the message is
\* absent, and direction, amount, description, account, category, date and
\* receipt are left as they were.
C8_FailurePreservesDraft ==
    [][ event' = "reject"
        => /\ draft' = draft
           /\ toasts' = << [kind |-> "error",
                            message |-> IF thrown'.message \in {"", undefined}
                                        THEN MsgGeneric
                                        ELSE thrown'.message] >> ]_vars

\* a rejection without a message, reported with the generic one, the draft
\* still filled in
C8_Witness ==
    /\ event = "reject"
    /\ thrown = [message |-> undefined]
    /\ toasts = << [kind |-> "error", message |-> MsgGeneric] >>
    /\ ~SomeRequiredEmpty
    /\ receiptFile \in Files

\* C9: the form leaves Editing (loading false) only by a submit event that
\* passes validation, leaves Submitting (loading true) only by the settlement
\* of the call, and every settlement, resolved or rejected, puts `loading`
\* back to false and enables the submit control.
C9_ReturnToEditing ==
    [][ /\ (~loading /\ loading') => (event' = "submit" /\ PassesValidation)
        /\ (loading /\ ~loading') => event' \in {"resolve", "reject"}
        /\ event' \in {"resolve", "reject"}
           => loading /\ ~loading' /\ ~SubmitDisabled' /\ pending' = << >> ]_vars

\* back in Editing after a rejection that carried a message
C9_Witness ==
    /\ event = "reject"
    /\ ~loading
    /\ ~SubmitDisabled
    /\ thrown.message \notin {"", undefined}

\* C10: the unified list is as long as the two collections together; its
\* first entries are the accounts, in their order, tagged 'account'; the
\* entries after them are the credit cards, in their order, tagged
\* 'credit_card' and carrying the bank name; empty collections give an empty
\* list.
C10_AccountsThenCards ==
    /\ Len(allAccounts) = Len(accounts) + Len(creditCards)
    /\ \A i \in 1..Len(accounts) :
          /\ allAccounts[i].id = accounts[i].id
          /\ allAccounts[i].name = accounts[i].name
          /\ allAccounts[i].type = "account"
    /\ \A j \in 1..Len(creditCards) :
          /\ allAccounts[Len(accounts) + j].id = creditCards[j].id
          /\ allAccounts[Len(accounts) + j].name = creditCards[j].name
          /\ allAccounts[Len(accounts) + j].type = "credit_card"
          /\ allAccounts[Len(accounts) + j].bankName = creditCards[j].bank_name
    /\ (accounts = << >> /\ creditCards = << >>) => allAccounts = << >>

\* the stores have changed to two different accounts and two different
\* cards, and the user has picked the last entry of the unified list
C10_Witness ==
    /\ Len(accounts) = 2 /\ accounts[1].id = "acc2" /\ accounts[2].id = "acc1"
    /\ Len(creditCards) = 2 /\ creditCards[1].id = "card2" /\ creditCards[2].id = "card1"
    /\ Len(allAccounts) = 4
    /\ event = "edit"
    /\ accountId = allAccounts[4].id

\* the k-th smallest member of a set of positions
Kth(E, k) == CHOOSE i \in E : Cardinality({j \in E : j < i}) = k - 1

\* `list` is exactly the rows of `categories` whose transaction_type is d,
\* each once per position, in the order they have in `categories`
ExactlyOfDirection(list, d) ==
    LET E == {i \in 1..Len(categories) : categories[i].transaction_type = d}
    IN  /\ Len(list) = Cardinality(E)
        /\ \A k \in 1..Len(list) : list[k] = categories[Kth(E, k)]

\* C11: for every category collection the list the form offers holds exactly
\* the categories whose transaction_type is the current direction, no others,
\* in their source order, whatever direction the toggle was last set to; the
\* panel's income and expense lists are the same filter for the two
\* directions.
C11_FilteredByDirection ==
    /\ ExactlyOfDirection(filteredCategories, type)
    /\ ExactlyOfDirection(incomeCategories, "income")
    /\ ExactlyOfDirection(expenseCategories, "expense")

\* the direction was just toggled to income over a collection whose two
\* income rows are separated by a row of another type
C11_Witness ==
    /\ event = "edit" /\ type = "income"
    /\ Len(categories) = 3
    /\ categories[2].transaction_type # "income"
    /\ Len(filteredCategories) = 2
    /\ filteredCategories[1] # filteredCategories[2]

\* two names are equal up to the case of their letters
SameIgnoringCase(a, b) ==
    /\ Len(a) = Len(b)
    /\ \A i \in 1..Len(a) :
          \/ a[i] = b[i]
          \/ \E k \in 1..Len(UpperCase) :
                {a[i], b[i]} = {UpperCase[k], LowerCase[k]}

\* the positions of the catalog whose name no existing category has
Eligible ==
    { i \in 1..Len(defaultCategories) :
        \A j \in 1..Len(categories) :
            ~SameIgnoringCase(categories[j].name, defaultCategories[i].name) }

\* C12: for every category collection and every catalog, the suggestions are
\* the first six (all, when there are fewer) catalog entries, in catalog
\* order, whose name equals no existing category's name up to letter case;
\* no suggested name equals an existing name in any letter case.
C12_FirstSixUnused ==
    /\ Len(Suggestions) =
          (IF Cardinality(Eligible) < 6 THEN Cardinality(Eligible) ELSE 6)
    /\ \A k \in 1..Len(Suggestions) :
          Suggestions[k] = defaultCategories[Kth(Eligible, k)]
    /\ \A k \in 1..Len(Suggestions), j \in 1..Len(categories) :
          ~SameIgnoringCase(Suggestions[k].name, categories[j].name)

\* the sixth suggestion was clicked, of a catalog with more than six unused
\* entries and one entry left out only because the case of its name is ignored
C12_Witness ==
    /\ event = "suggestion"
    /\ Len(Suggestions) = 6
    /\ Cardinality(Eligible) > 6
    /\ newCategory.name = Suggestions[6].name
    /\ \E i \in 1..Len(defaultCategories), j \in 1..Len(categories) :
          /\ i < Kth(Eligible, 6)
          /\ categories[j].name # defaultCategories[i].name
          /\ SameIgnoringCase(categories[j].name, defaultCategories[i].name)

\* the text with every decimal comma written as a decimal point
WithPoints(s) == [i \in 1..Len(s) |-> IF s[i] = "," THEN "." ELSE s[i]]

\* a number greater than zero
Positive(n) == ~isNaN(n) /\ ~LeqZero(n)

\* C13: a submit with the required fields filled in and an amount whose
\* decimal-point spelling parses to a positive number is accepted and sends
\* exactly that number, whether the amount was typed with a decimal comma or
\* with a decimal point; a spelling whose decimal-point twin is not positive
\* is rejected in both spellings.
C13_CommaAsPoint ==
    [][ (event' = "submit" /\ ~SomeRequiredEmpty)
        => LET n == parseFloat(WithPoints(amount))
           IN  IF Positive(n)
               THEN /\ calls' = 1
                    /\ pending' = Append(pending, pending'[Len(pending')])
                    /\ pending'[Len(pending')].amount = n
               ELSE /\ calls' = 0
                    /\ pending' = pending ]_vars

\* "10,50" was submitted and 10.5 is on its way to the store
C13_Witness ==
    /\ event = "submit"
    /\ amount = <<"1", "0", ",", "5", "0">>
    /\ Len(pending) = 1
    /\ pending[1].amount = [cls |-> "finite", neg |-> FALSE, mant |-> 105, exp |-> -1]
    /\ pending[1].amount = parseFloat(<<"1", "0", ".", "5", "0">>)

\* C16: a step that changes the direction changes nothing else of the form:
\* category_id, amount, description, account_id, date, receipt file and
\* loading keep their values, no call is issued or settled, and the list
\* offered afterwards is the categories of the new direction.
C16_ToggleFrame ==
    [][ type' # type
        => /\ categoryId' = categoryId
           /\ amount' = amount
           /\ description' = description
           /\ accountId' = accountId
           /\ date' = date
           /\ receiptFile' = receiptFile
           /\ loading' = loading
           /\ pending' = pending
           /\ categories' = categories
           /\ ExactlyOfDirection(filteredCategories, type)' ]_vars

\* the direction is income over a filled-in draft that still holds the expense
\* category chosen before the toggle
C16_Witness ==
    /\ event = "edit"
    /\ type = "income"
    /\ categoryId = "cat1"
    /\ Len(amount) > 0 /\ description # "" /\ accountId # ""
    /\ receiptFile \in Files
    /\ \A k \in 1..Len(filteredCategories) : filteredCategories[k].id # categoryId

\* C18: while a call is pending the fields stay editable and no edit changes
\* the pending payload; the payload is the draft as it was at the submit; when
\* the call resolves, the message names the direction captured at the submit
\* and amount, description, account, category and file are cleared whatever
\* was typed meanwhile; when it rejects, what was typed meanwhile is kept.
C18_EditsDuringFlight ==
    [][ /\ event' \in {"edit", "tick"} => pending' = pending /\ loading' = loading
        /\ (event' = "submit" /\ calls' = 1)
           => /\ pending' = Append(pending, pending'[Len(pending')])
              /\ LET sent == pending'[Len(pending')]
                 IN  /\ sent.type = type
                     /\ sent.amount = AmountValue
                     /\ sent.description = description
                     /\ sent.account_id = accountId
                     /\ sent.category_id = categoryId
                     /\ sent.date = date
        /\ event' = "resolve"
           => /\ Len(amount') = 0 /\ description' = "" /\ accountId' = ""
              /\ categoryId' = "" /\ receiptFile' = null
              /\ toasts'[Len(toasts')].message = SuccessMessage(pending[1].type)
        /\ event' = "reject" => draft' = draft ]_vars

\* a call is pending and the draft on screen, edited since the submit, differs
\* from the payload in direction, amount, description and account
C18_Witness ==
    /\ loading /\ Len(pending) = 1
    /\ event = "edit"
    /\ pending[1].type # type
    /\ pending[1].description # description
    /\ pending[1].account_id # accountId
    /\ pending[1].amount # AmountValue

\* C19: the receipt changes only by a file-change event that carries a file,
\* which attaches or replaces it, or by the reset after a resolved call,
\* which sets it to null; every other step, a file-change event without a
\* file and a rejection among them, leaves it as it is, and every validated
\* submit sends the receipt attached at that moment.
C19_ReceiptSticky ==
    [][ /\ receiptFile' # receiptFile
           => \/ event' = "edit" /\ receiptFile' \in Files
              \/ event' = "resolve" /\ receiptFile' = null
        /\ (event' = "submit" /\ calls' = 1)
           => pending'[Len(pending')].receiptFile =
                 (IF receiptFile = null THEN undefined ELSE receiptFile) ]_vars

\* after a rejection the receipt is still attached and the draft can be
\* submitted again as it is
C19_Witness ==
    /\ outcome = "rejected"
    /\ receiptFile = "recibo.pdf"
    /\ ~SomeRequiredEmpty
    /\ ~SubmitDisabled

\* C14: a click on a suggestion sets the creation draft to the name, icon,
\* color and transaction_type of that suggestion and opens the creation form;
\* it emits no notification, issues no call and leaves the categories as they
\* are. The category-created notification is emitted by no event other than
\* the submit of the creation form.
C14_SuggestionOnlyPrefills ==
    [][ /\ event' = "suggestion"
           => /\ \E k \in 1..Len(Suggestions) :
                    newCategory' = [name             |-> Suggestions[k].name,
                                    icon             |-> Suggestions[k].icon,
                                    color            |-> Suggestions[k].color,
                                    transaction_type |-> Suggestions[k].transaction_type]
              /\ showAddForm'
              /\ panelToasts' = << >>
              /\ toasts' = toasts /\ calls' = calls /\ pending' = pending
              /\ categories' = categories
        /\ panelToasts' # << >> => event' = "addCategory" ]_vars

\* the creation form was opened by a click on the suggestion "Lazer", which is
\* now the draft; nothing was notified and the categories are as loaded
C14_Witness ==
    /\ event = "suggestion"
    /\ showAddForm
    /\ newCategory = [name |-> <<"L", "a", "z", "e", "r">>, icon |-> "party",
                      color |-> "#8B5CF6", transaction_type |-> "expense"]
    /\ panelToasts = << >>
    /\ categories = LoadedCategories

\* C17: every submit of the creation form emits exactly one notification, the
\* success one, closes the form and resets the draft to the empty name, the
\* default icon, the default color and expense; it issues no call and leaves
\* the categories as they are, so the suggestions are the same afterwards and
\* a submitted suggestion is still among them.
C17_StubbedCreation ==
    [][ event' = "addCategory"
        => /\ panelToasts' = << [kind |-> "success",
                                 message |-> "Categoria adicionada com sucesso!"] >>
           /\ ~showAddForm'
           /\ newCategory' = [name |-> << >>, icon |-> "clipboard",
                              color |-> "#6B7280", transaction_type |-> "expense"]
           /\ toasts' = toasts /\ calls' = calls /\ pending' = pending
           /\ categories' = categories
           /\ Suggestions' = Suggestions
           /\ \A j \in 1..Len(categories') :
                 categories'[j].name = newCategory.name
                 => \E i \in 1..Len(categories) : categories[i].name = newCategory.name ]_vars

\* the creation form was just submitted: one notification, the form closed,
\* the draft back at its defaults, the six suggestions still offered
C17_Witness ==
    /\ event = "addCategory"
    /\ Len(panelToasts) = 1
    /\ ~showAddForm
    /\ newCategory = NewCategoryDefaults
    /\ categories = LoadedCategories
    /\ Len(Suggestions) = 6

\* C15: no event of the form or of the panel changes the account collection,
\* the credit-card collection, the category collection or the catalog; the
\* only thing either component sends out is the create-call of a validated
\* submit of the transaction form.
C15_CollectionsReadOnly ==
    [][ /\ accounts' = accounts
        /\ creditCards' = creditCards
        /\ categories' = categories
        /\ defaultCategories' = defaultCategories
        /\ Len(pending') > Len(pending) => event' = "submit"
        /\ event' \in {"toggleForm", "cancel", "panelEdit", "suggestion", "addCategory"}
           => pending' = pending /\ calls' = calls ]_vars

\* a transaction was created through the form and then a category was
\* submitted in the panel; the collections are as they were loaded
C15_Witness ==
    /\ outcome = "resolved"
    /\ event = "addCategory"
    /\ accounts = LoadedAccounts
    /\ creditCards = LoadedCreditCards
    /\ categories = LoadedCategories
    /\ defaultCategories = BaseCatalog

============================================================================
